---- MODULE Spec2Model ----
(***************************************************************************)
(* A model of two slices of the plotting library:                          *)
(*                                                                         *)
(*   - BezierView (bokehjs/src/lib/models/glyphs/bezier.ts): _index_data   *)
(*     and _render, with the doubles they add up modelled with IEEE-754    *)
(*     overflow;                                                           *)
(*   - UIElementView (the UI element base view): the view's life cycle,    *)
(*     update_bbox, the resize observer, after_render / after_resize,      *)
(*     the _display stylesheet and the element's inline style.             *)
(*                                                                         *)
(* Each slice has its own specification (SpecIndex, SpecRender, SpecGeom,  *)
(* SpecGeomFair, SpecCSS); the variables of the other slice stay at their  *)
(* initial values.                                                         *)
(***************************************************************************)
EXTENDS Integers, Sequences, FiniteSets, TLC

(***************************************************************************)
(* IEEE-754 doubles, as far as isFinite(a + b + ...) can tell them apart.  *)
(* A double is NaN, +Infinity, -Infinity or finite. The finite doubles of  *)
(* the model are the multiples k * 2^1022 with |k| <= MaxFinite: for       *)
(* MaxFinite = 3 they are all representable, their sums are exact, and a   *)
(* sum of 4 * 2^1022 = 2^1024 or more exceeds Number.MAX_VALUE             *)
(* (about 1.8e308) and rounds to Infinity, as 2**1023 + 2**1023 does.      *)
(***************************************************************************)
MaxFinite == 3

NaN == [k |-> "nan", v |-> 0]
PosInf == [k |-> "inf", v |-> 1]
NegInf == [k |-> "inf", v |-> -1]
Fin(n) == [k |-> "fin", v |-> n]

Zero == Fin(0)
\* The largest finite double of the model, and its negation.
Big == Fin(MaxFinite)
NegBig == Fin(-MaxFinite)

\* a + b on doubles: NaN is absorbing, Infinity + -Infinity is NaN, a finite sum
\* past the finite range overflows to an infinity.
fadd(a, b) ==
  IF a.k = "nan" \/ b.k = "nan" THEN NaN
  ELSE IF a.k = "inf" /\ b.k = "inf" THEN (IF a.v = b.v THEN a ELSE NaN)
  ELSE IF a.k = "inf" THEN a
  ELSE IF b.k = "inf" THEN b
  ELSE IF a.v + b.v > MaxFinite THEN PosInf
  ELSE IF a.v + b.v < -MaxFinite THEN NegInf
  ELSE Fin(a.v + b.v)

\* The global isFinite(x) of JavaScript on a number.
isFinite(x) == x.k = "fin"

(***************************************************************************)
(* Bezier.Data: the eight coordinate arrays, kept here as one sequence of  *)
(* items, item i+1 holding x0[i], y0[i], x1[i], y1[i], cx0[i], cy0[i],     *)
(* cx1[i], cy1[i] (or the screen coordinates sx0[i], ... for _render).     *)
(***************************************************************************)
Fields == {"x0", "y0", "x1", "y1", "cx0", "cy0", "cx1", "cy1"}

DataSize == 2
MaxIndices == 2

ZeroItem == [f \in Fields |-> Zero]

\* The items the model draws its data from: all coordinates zero; one
\* coordinate NaN, an infinity or a large finite value; two coordinates the
\* largest finite value (their sum overflows).
ItemSet ==
  {ZeroItem}
    \cup {[ZeroItem EXCEPT ![f] = x] : f \in Fields, x \in {NaN, PosInf, NegInf, Big, NegBig}}
    \cup {[ZeroItem EXCEPT ![f] = Big, ![g] = Big] : f \in Fields, g \in Fields}

DataSet == [1..DataSize -> ItemSet]

\* Every coordinate of the item is a finite double.
AllFinite(it) == \A f \in Fields : it[f].k = "fin"

\* CubicBezier (core/util/curves), kept symbolic: the curve of its eight
\* constructor arguments, in the constructor's order.
CubicBezier(a0, b0, a1, b1, ca0, cb0, ca1, cb1) ==
  [x0 |-> a0, y0 |-> b0, x1 |-> a1, y1 |-> b1,
   cx0 |-> ca0, cy0 |-> cb0, cx1 |-> ca1, cy1 |-> cb1]

\* curve.bounding_box(), kept symbolic: the rectangle is named by its curve.
bounding_box(curve) == [bbox_of |-> curve]

VARIABLES
  \* BezierView
  data,          \* the data-space coordinates x0, y0, ... of the glyph
  index,         \* the entries of the SpatialIndex, in the order they were added
  sdata,         \* the screen-space coordinates sx0, sy0, ... of the glyph
  ctx,           \* the calls _render issued on the Context2d, in order
  rendered_with  \* the arguments of the last _render: indices, line.doit, has_decorations

bezier_vars == <<data, index, sdata, ctx, rendered_with>>

VARIABLES
  \* UIElementView
  phase,             \* "constructed", "initialized" (initialize ran), "connected" (connect_signals ran)
  removed,           \* remove() ran
  render_pending,    \* render() ran and its after_render() is still to come
  has_rendered,      \* render() ran at least once
  has_parent,        \* this.parent != null
  env,               \* the DOM's view of this.el (see EnvSet)
  observing,         \* _resize_observer observes this.el
  last_reported,     \* the border-box size the observer last reported (0x0 on observe)
  _bbox,             \* this._bbox
  _is_displayed,     \* this._is_displayed
  handler,           \* the last entry point that ran
  calls,             \* the calls it made, in order
  finish_pending,    \* an after_render() ended without finish() and no finish() ran since
  ub,                \* history of update_bbox(): calls so far (capped), the last result,
                     \* the last two computed boxes, whether the DOM changed since
  model_visible,     \* this.model.visible
  _display,          \* the css of the _display stylesheet
  model_styles,      \* this.model.styles
  el_style,          \* the inline style of this.el
  style_before       \* the inline style as it was when _update_styles() last started

geom_vars ==
  <<phase, removed, render_pending, has_rendered, has_parent, env, observing, last_reported,
    _bbox, _is_displayed, handler, calls, finish_pending, ub>>
geom_but_handler ==
  <<phase, removed, render_pending, has_rendered, has_parent, env, observing, last_reported,
    _bbox, _is_displayed, finish_pending, ub>>
css_vars == <<model_visible, _display, model_styles, el_style, style_before>>
ui_vars == <<geom_vars, css_vars>>
vars == <<bezier_vars, ui_vars>>

NotRendered ==
  [done |-> FALSE, indices |-> <<>>, used |-> <<>>, doit |-> FALSE, deco |-> FALSE]

(***************************************************************************)
(* BezierView._index_data                                                  *)
(***************************************************************************)
\* The sum _index_data tests, in the order the code adds it up.
IndexSum(it) ==
  fadd(fadd(fadd(fadd(fadd(fadd(fadd(it.x0, it.x1), it.y0), it.y1), it.cx0), it.cy0), it.cx1), it.cy1)

\* One pass of the loop body for an item: the entry it adds to the index.
IndexEntry(it) ==
  IF ~isFinite(IndexSum(it))
    THEN [type |-> "empty"]
    ELSE [type |-> "rect",
          rect |-> bounding_box(CubicBezier(it.x0, it.y0, it.x1, it.y1, it.cx0, it.cy0, it.cx1, it.cy1))]

\* The whole loop: one entry per item, appended in data order.
RECURSIVE IndexLoop(_, _, _)
IndexLoop(d, i, idx) ==
  IF i > Len(d) THEN idx
  ELSE IndexLoop(d, i + 1, Append(idx, IndexEntry(d[i])))

_index_data ==
  /\ index = <<>>
  /\ index' = IndexLoop(data, 1, index)
  /\ UNCHANGED <<data, sdata, ctx, rendered_with, ui_vars>>

(***************************************************************************)
(* BezierView._render                                                      *)
(***************************************************************************)
\* The sum _render tests, in the order the code adds it up.
RenderSum(it) ==
  fadd(fadd(fadd(fadd(fadd(fadd(fadd(it.x0, it.y0), it.x1), it.y1), it.cx0), it.cy0), it.cx1), it.cy1)

\* The canvas calls of one index i (0-based, as in the code). Each call
\* carries the index it was issued for.
PathCalls(i, it) ==
  << [op |-> "beginPath", i |-> i, args |-> <<>>],
     [op |-> "moveTo", i |-> i, args |-> <<it.x0, it.y0>>],
     [op |-> "bezierCurveTo", i |-> i, args |-> <<it.cx0, it.cy0, it.cx1, it.cy1, it.x1, it.y1>>],
     [op |-> "line.apply", i |-> i, args |-> <<>>] >>

DecorationCalls(i, it) ==
  << [op |-> "_render_decorations", i |-> i,
      args |-> <<CubicBezier(it.x0, it.y0, it.x1, it.y1, it.cx0, it.cy0, it.cx1, it.cy1)>>] >>

\* The loop body for index i.
RenderItem(s, i, doit, deco) ==
  LET it == s[i + 1] IN
  IF ~isFinite(RenderSum(it)) THEN <<>>
  ELSE (IF doit THEN PathCalls(i, it) ELSE <<>>) \o (IF deco THEN DecorationCalls(i, it) ELSE <<>>)

RECURSIVE RenderLoop(_, _, _, _, _, _)
RenderLoop(s, indices, n, doit, deco, issued) ==
  IF n > Len(indices) THEN issued
  ELSE RenderLoop(s, indices, n + 1, doit, deco, issued \o RenderItem(s, indices[n], doit, deco))

RECURSIVE SeqsUpTo(_, _)
SeqsUpTo(S, n) ==
  IF n = 0 THEN {<<>>}
  ELSE LET shorter == SeqsUpTo(S, n - 1) IN
       shorter \cup {Append(q, x) : q \in {r \in shorter : Len(r) = n - 1}, x \in S}

\* The index lists _render is called with: 0-based indices into the data.
IndexLists == SeqsUpTo(0..(DataSize - 1), MaxIndices)

\* The optional `data` argument of _render: absent (<<>>), or a full set of
\* coordinate arrays.
DataArgs ==
  {<<>>, [n \in 1..DataSize |-> ZeroItem], [n \in 1..DataSize |-> [ZeroItem EXCEPT !.cy1 = NaN]]}

\* _render(ctx, indices, data?): {...this, ...data} takes the coordinates of
\* `data` when it is given and those of the view otherwise. rendered_with
\* keeps the arguments and the coordinates that were read.
_render(indices, arg, doit, deco) ==
  LET s == IF arg = <<>> THEN sdata ELSE arg IN
  /\ ~rendered_with.done
  /\ ctx' = RenderLoop(s, indices, 1, doit, deco, ctx)
  /\ rendered_with' =
       [done |-> TRUE, indices |-> indices, used |-> s, doit |-> doit, deco |-> deco]
  /\ UNCHANGED <<data, index, sdata, ui_vars>>

(***************************************************************************)
(* UIElementView                                                           *)
(*                                                                         *)
(* Lengths of the DOM are kept in half pixels (a value h stands for h/2    *)
(* px), so that Math.round and Math.floor have something to round.         *)
(***************************************************************************)
MaxPos2 == 1
MaxSize2 == 2

\* Math.round(h/2) and Math.floor(h/2); \div rounds towards minus infinity.
round(h) == (h + 1) \div 2
floor(h) == h \div 2

\* BBox (core/util/bbox): new BBox() is the empty box; new BBox({left, top,
\* width, height}) keeps the corners; equals compares the four corners.
EmptyBBox == [x0 |-> 0, y0 |-> 0, x1 |-> 0, y1 |-> 0]
BBox(left, top, width, height) ==
  [x0 |-> left, y0 |-> top, x1 |-> left + width, y1 |-> top + height]
equals(a, b) == a.x0 = b.x0 /\ a.y0 = b.y0 /\ a.x1 = b.x1 /\ a.y1 = b.y1

\* The parent's getBoundingClientRect(): its left and top, in half pixels.
ParentLeft2 == 1
ParentTop2 == 0

\* What the DOM tells about this.el: isConnected, offsetParent != null, the
\* computed position and display, and getBoundingClientRect(). An element
\* that generates no box (not connected, display: none, or inside a hidden
\* ancestor) has no offsetParent and an all-zero rect; a fixed element has
\* no offsetParent either.
Detached ==
  [isConnected |-> FALSE, offsetParent |-> FALSE, position |-> "static", display |-> "block",
   left |-> 0, top |-> 0, width |-> 0, height |-> 0]

NoBoxEnvs ==
  {Detached}
    \cup {[Detached EXCEPT !.isConnected = TRUE, !.position = pos, !.display = "none"] :
            pos \in {"static", "fixed"}}
    \cup {[Detached EXCEPT !.isConnected = TRUE]}

\* Elements that generate a box: in the flow, offset from the parent, of any
\* size; or fixed to the viewport (then offsetParent is null), collapsed or of
\* full size in each direction.
BoxEnvs ==
  {[isConnected |-> TRUE, offsetParent |-> TRUE, position |-> "static", display |-> "block",
    left |-> l, top |-> 0, width |-> w, height |-> h] :
      l \in 0..MaxPos2, w \in 0..MaxSize2, h \in {0, MaxSize2}}
    \cup
  {[isConnected |-> TRUE, offsetParent |-> FALSE, position |-> "fixed", display |-> "block",
    left |-> 0, top |-> 0, width |-> w, height |-> h] :
      w \in {0, MaxSize2}, h \in {0, MaxSize2}}

EnvSet == NoBoxEnvs \cup BoxEnvs

\* The ":host { display: none !important; }" rule of _apply_visible.
DisplayNone == ":host { display: none !important; }"

\* model.styles: a dictionary of CSS properties to strings or null.
StyleKeys == {"color", "width"}
StyleVals == {"red", "blue", "null"}
StylesSet == UNION {[K -> StyleVals] : K \in SUBSET StyleKeys}

\* The empty dictionary (and the empty inline style).
NoStyles == [k \in {} |-> "null"]

\* No update_bbox() yet: the stored box is the initial empty BBox.
NoCalls == [n |-> 0, ret |-> FALSE, computed |-> EmptyBBox, displayed |-> FALSE,
            prev |-> EmptyBBox, dirty |-> FALSE, quiet |-> FALSE]

\* The state right after construction: _bbox = new BBox(), _is_displayed =
\* false, both stylesheets empty.
UIConstructed ==
  /\ phase = "constructed"
  /\ removed = FALSE
  /\ render_pending = FALSE
  /\ has_rendered = FALSE
  /\ env = Detached
  /\ observing = FALSE
  /\ last_reported = <<0, 0>>
  /\ _bbox = EmptyBBox
  /\ _is_displayed = FALSE
  /\ handler = "constructor"
  /\ calls = <<>>
  /\ finish_pending = FALSE
  /\ ub = NoCalls
  /\ _display = ""
  /\ el_style = NoStyles
  /\ style_before = NoStyles

\* The view while only the Bezier slice runs.
UIIdle ==
  /\ UIConstructed
  /\ has_parent = FALSE
  /\ model_visible = TRUE
  /\ model_styles = NoStyles

(***************************************************************************)
(* update_bbox                                                             *)
(***************************************************************************)
\* The `displayed` of _update_bbox.
Displayed(e) ==
  IF ~e.isConnected THEN FALSE
  ELSE IF e.offsetParent THEN TRUE
  ELSE e.position = "fixed" /\ e.display # "none"

\* The `bbox` of _update_bbox: empty when not displayed, else the element's
\* rect relative to the parent's (or at 0, 0 without a parent), rounded.
ComputedBBox(e) ==
  IF ~Displayed(e) THEN EmptyBBox
  ELSE LET left == IF has_parent THEN e.left - ParentLeft2 ELSE 0
           top == IF has_parent THEN e.top - ParentTop2 ELSE 0
       IN BBox(round(left), round(top), floor(e.width), floor(e.height))

\* A faulty _update_bbox(): the box is stored only by the first call.
_update_bbox_keeps_first ==
  LET bbox == ComputedBBox(env) IN
  [changed |-> ~equals(_bbox, bbox),
   bbox |-> IF ub.n = 0 THEN bbox ELSE _bbox,
   displayed |-> Displayed(env)]

\* _update_bbox(): what it returns and what it stores.
_update_bbox ==
  LET bbox == ComputedBBox(env) IN
  [changed |-> ~equals(_bbox, bbox), bbox |-> bbox, displayed |-> Displayed(env)]

\* The history of update_bbox() after one more call: how many calls (0, 1, 2
\* for two or more), what this call returned, the box and the flag it computed,
\* the box the call before computed, and whether the DOM stayed as it was
\* between the two calls (quiet). dirty: the DOM changed since the last call.
UbNext ==
  [n |-> IF ub.n = 0 THEN 1 ELSE 2,
   ret |-> _update_bbox.changed,
   computed |-> ComputedBBox(env),
   displayed |-> Displayed(env),
   prev |-> ub.computed,
   dirty |-> FALSE,
   quiet |-> ub.n > 0 /\ ~ub.dirty]

(***************************************************************************)
(* The view's life cycle                                                   *)
(***************************************************************************)
\* The on_change handlers of connect_signals are wired: connect_signals ran
\* and remove() has not disconnected them.
SignalsConnected == phase = "connected" /\ ~removed

\* initialize(): creates the resize observer, whose callback is
\* after_resize(), and observes this.el. A fresh observation has reported the
\* size 0x0.
initialize ==
  /\ phase = "constructed"
  /\ phase' = "initialized"
  /\ observing' = TRUE
  /\ last_reported' = <<0, 0>>
  /\ handler' = "initialize"
  /\ calls' = <<"super.initialize", "new ResizeObserver", "observe">>
  /\ UNCHANGED <<bezier_vars, removed, render_pending, has_rendered, has_parent, env, _bbox, _is_displayed,
                 finish_pending, ub, css_vars>>

\* connect_signals(): wires _update_visible, _update_styles, _update_css_classes
\* and _update_stylesheets to the model's properties.
connect_signals ==
  /\ phase = "initialized"
  /\ ~removed
  /\ phase' = "connected"
  /\ handler' = "connect_signals"
  /\ calls' = <<"super.connect_signals", "on_change(visible)", "on_change(styles)",
                "on_change(css_classes)", "on_change(stylesheets)">>
  /\ UNCHANGED <<bezier_vars, removed, render_pending, has_rendered, has_parent, env, observing, last_reported,
                 _bbox, _is_displayed, finish_pending, ub, css_vars>>

\* A faulty remove(): the observer is left connected.
remove_keeps_observer ==
  /\ phase # "constructed"
  /\ ~removed
  /\ ~render_pending
  /\ removed' = TRUE
  /\ handler' = "remove"
  /\ calls' = <<"super.remove">>
  /\ UNCHANGED <<bezier_vars, phase, observing, render_pending, has_rendered, has_parent, env, last_reported,
                 _bbox, _is_displayed, finish_pending, ub, css_vars>>

\* remove(): disconnects the resize observer, then the inherited removal
\* (which disconnects the view's signals).
remove ==
  /\ phase # "constructed"
  /\ ~removed
  /\ ~render_pending
  /\ observing' = FALSE
  /\ removed' = TRUE
  /\ handler' = "remove"
  /\ calls' = <<"_resize_observer.disconnect", "super.remove">>
  /\ UNCHANGED <<bezier_vars, phase, render_pending, has_rendered, has_parent, env, last_reported,
                 _bbox, _is_displayed, finish_pending, ub, css_vars>>

\* The page changes what the DOM tells about this.el: the element is
\* attached, laid out, resized, hidden.
EnvChange ==
  /\ phase # "constructed"
  /\ \E e \in EnvSet \ {env} : env' = e
  /\ ub' = [ub EXCEPT !.dirty = TRUE]
  /\ UNCHANGED <<bezier_vars, phase, removed, render_pending, has_rendered, has_parent, observing,
                 last_reported, _bbox, _is_displayed, handler, calls, finish_pending, css_vars>>

(***************************************************************************)
(* Styles and visibility                                                   *)
(***************************************************************************)
\* apply_styles(this.el.style, styles) (core/css): sets every property whose
\* value is a string and removes every property whose value is null; the
\* other properties of the inline style stay.
apply_styles(style, styles) ==
  LET set == {k \in DOMAIN styles : styles[k] # "null"}
      kept == DOMAIN style \ DOMAIN styles
  IN [k \in set \cup kept |-> IF k \in set THEN styles[k] ELSE style[k]]

\* _apply_styles()
_apply_styles(style, styles) == apply_styles(style, styles)

\* A faulty _apply_visible(): the stylesheet is not cleared.
_apply_visible_never_clears(visible) ==
  IF visible THEN _display ELSE DisplayNone

\* _apply_visible(): the css of _display afterwards (clear() empties it,
\* replace(css) makes it css).
_apply_visible(visible) ==
  IF visible THEN "" ELSE DisplayNone

\* _update_visible()
_update_visible(visible) == _apply_visible(visible)

\* A faulty _update_styles(): the style attribute is not removed first.
_update_styles_keeps_attribute(style, styles) == _apply_styles(style, styles)

\* _update_styles(): the inline style afterwards. removeAttribute("style")
\* empties it, then the current styles are applied.
_update_styles(style, styles) == _apply_styles(NoStyles, styles)

\* render(): the inherited render, then _apply_styles() and _apply_visible().
render ==
  /\ SignalsConnected
  /\ ~render_pending
  /\ render_pending' = TRUE
  /\ has_rendered' = TRUE
  /\ el_style' = _apply_styles(el_style, model_styles)
  /\ _display' = _apply_visible(model_visible)
  /\ handler' = "render"
  /\ calls' = <<"super.render", "_apply_styles", "_apply_visible">>
  /\ UNCHANGED <<bezier_vars, phase, removed, has_parent, env, observing, last_reported, _bbox, _is_displayed,
                 finish_pending, ub, model_visible, model_styles, style_before>>

\* model.visible is set to another value; the change signal runs
\* _update_visible() when it is wired.
ChangeVisible ==
  /\ ~render_pending
  /\ model_visible' = ~model_visible
  /\ IF SignalsConnected
       THEN /\ _display' = _update_visible(model_visible')
            /\ handler' = "_update_visible"
            /\ calls' = <<"_apply_visible">>
       ELSE /\ UNCHANGED _display
            /\ handler' = "visible changed, not wired"
            /\ calls' = <<>>
  /\ UNCHANGED <<bezier_vars, geom_but_handler, model_styles, el_style, style_before>>

\* model.styles is set to another value; the change signal runs
\* _update_styles() when it is wired.
ChangeStyles ==
  /\ ~render_pending
  /\ \E s \in StylesSet \ {model_styles} : model_styles' = s
  /\ IF SignalsConnected
       THEN /\ el_style' = _update_styles(el_style, model_styles')
            /\ style_before' = el_style
            /\ handler' = "_update_styles"
            /\ calls' = <<"removeAttribute(style)", "_apply_styles">>
       ELSE /\ UNCHANGED <<el_style, style_before>>
            /\ handler' = "styles changed, not wired"
            /\ calls' = <<>>
  /\ UNCHANGED <<bezier_vars, geom_but_handler, model_visible, _display>>

(***************************************************************************)
(* after_render, after_resize, update_bbox                                 *)
(***************************************************************************)
HasFinish(cs) == \E n \in 1..Len(cs) : cs[n] = "finish"

\* A faulty after_render(): finish() whatever is_displayed says.
after_render_always_finishes(displayed) ==
  <<"super.after_render", "update_style", "update_bbox", "_after_render", "finish">>

\* after_render(): its calls, in order; `displayed` is this.is_displayed as
\* update_bbox() left it. update_style() clears this.style, a stylesheet
\* nothing in this class writes to; _after_render() is an empty hook here.
after_render_calls(displayed) ==
  <<"super.after_render", "update_style", "update_bbox", "_after_render">>
    \o (IF ~displayed THEN <<"finish">> ELSE <<>>)

\* A faulty after_resize(): finish() only after a change.
after_resize_finishes_on_change(changed) ==
  <<"update_bbox">> \o (IF changed THEN <<"_after_resize", "finish">> ELSE <<>>)

\* after_resize(): its calls, in order; `changed` is what update_bbox()
\* returned.
after_resize_calls(changed) ==
  <<"update_bbox">> \o (IF changed THEN <<"_after_resize">> ELSE <<>>) \o <<"finish">>

\* What update_bbox() stores.
StoreBBox ==
  /\ _bbox' = _update_bbox.bbox
  /\ _is_displayed' = _update_bbox.displayed
  /\ ub' = UbNext

\* after_render(), called by the framework after render() and after the
\* element was put in its place.
after_render ==
  /\ render_pending
  /\ render_pending' = FALSE
  /\ StoreBBox
  /\ handler' = "after_render"
  /\ calls' = after_render_calls(_is_displayed')
  /\ finish_pending' = ~HasFinish(calls')
  /\ UNCHANGED <<bezier_vars, phase, removed, has_rendered, has_parent, env, observing, last_reported, css_vars>>

\* The body of after_resize().
AfterResizeBody ==
  /\ StoreBBox
  /\ calls' = after_resize_calls(_update_bbox.changed)
  /\ finish_pending' = IF HasFinish(calls') THEN FALSE ELSE finish_pending

\* The resize observer delivers a notification: it has one when the border
\* box of the observed element is not the size it last reported. Its
\* callback is after_resize().
ObserverNotify ==
  /\ observing
  /\ ~render_pending
  /\ <<env.width, env.height>> # last_reported
  /\ last_reported' = <<env.width, env.height>>
  /\ handler' = "resize notification"
  /\ AfterResizeBody
  /\ UNCHANGED <<bezier_vars, phase, removed, render_pending, has_rendered, has_parent, env, observing, css_vars>>

\* after_resize() called by other code of the library.
after_resize ==
  /\ phase # "constructed"
  /\ ~removed
  /\ ~render_pending
  /\ handler' = "after_resize"
  /\ AfterResizeBody
  /\ UNCHANGED <<bezier_vars, phase, removed, render_pending, has_rendered, has_parent, env, observing,
                 last_reported, css_vars>>

\* update_bbox() called by other code of the library.
update_bbox ==
  /\ phase # "constructed"
  /\ ~removed
  /\ ~render_pending
  /\ StoreBBox
  /\ handler' = "update_bbox"
  /\ calls' = <<"_update_bbox">>
  /\ UNCHANGED <<bezier_vars, phase, removed, render_pending, has_rendered, has_parent, env, observing,
                 last_reported, finish_pending, css_vars>>

(***************************************************************************)
(* Specifications of the UI element slice                                  *)
(***************************************************************************)
BezierIdle ==
  /\ data = <<>>
  /\ index = <<>>
  /\ sdata = <<>>
  /\ ctx = <<>>
  /\ rendered_with = NotRendered

\* The geometry of the view: the DOM changes, the observer notifies.
InitGeom ==
  /\ UIConstructed
  /\ has_parent \in BOOLEAN
  /\ model_visible = TRUE
  /\ model_styles = NoStyles
  /\ BezierIdle

NextGeom ==
  \/ initialize
  \/ connect_signals
  \/ render
  \/ after_render
  \/ EnvChange
  \/ ObserverNotify
  \/ after_resize
  \/ update_bbox
  \/ remove

SpecGeom == InitGeom /\ [][NextGeom]_vars

\* The browser delivers a notification the observer has; the framework calls
\* after_render() after render().
SpecGeomFair ==
  /\ SpecGeom
  /\ WF_vars(ObserverNotify)
  /\ WF_vars(after_render)

\* The styling of the view: model.visible and model.styles change.
InitCSS ==
  /\ UIConstructed
  /\ has_parent = FALSE
  /\ model_visible \in BOOLEAN
  /\ model_styles \in StylesSet
  /\ BezierIdle

NextCSS ==
  \/ initialize
  \/ connect_signals
  \/ render
  \/ after_render
  \/ ChangeVisible
  \/ ChangeStyles
  \/ remove

SpecCSS == InitCSS /\ [][NextCSS]_vars

(***************************************************************************)
(* Specifications of the Bezier slice                                      *)
(***************************************************************************)
InitIndex ==
  /\ data \in DataSet
  /\ index = <<>>
  /\ sdata = <<>>
  /\ ctx = <<>>
  /\ rendered_with = NotRendered
  /\ UIIdle

NextIndex == _index_data

SpecIndex == InitIndex /\ [][NextIndex]_vars

InitRender ==
  /\ data = <<>>
  /\ index = <<>>
  /\ sdata \in DataSet
  /\ ctx = <<>>
  /\ rendered_with = NotRendered
  /\ UIIdle

NextRender ==
  \E indices \in IndexLists, arg \in DataArgs, doit \in BOOLEAN, deco \in BOOLEAN :
    _render(indices, arg, doit, deco)

SpecRender == InitRender /\ [][NextRender]_vars
(***************************************************************************)
(* Properties                                                              *)
(***************************************************************************)
\* The calls _render issued for index i.
IssuedFor(i) == {n \in 1..Len(ctx) : ctx[n].i = i}

\* The calls `cs` occur in ctx, one after the other.
Occurs(cs) == \E n \in 0..(Len(ctx) - Len(cs)) : SubSeq(ctx, n + 1, n + Len(cs)) = cs

C1_NonFiniteSkipped ==
  rendered_with.done =>
    \A n \in 1..Len(rendered_with.indices) :
      LET i == rendered_with.indices[n] IN
      ~AllFinite(rendered_with.used[i + 1]) => IssuedFor(i) = {}

C2_OneEntryPerItem ==
  index # <<>> =>
    /\ Len(index) = Len(data)
    /\ \A n \in 1..Len(data) :
         index[n] =
           IF ~AllFinite(data[n])
             THEN [type |-> "empty"]
             ELSE [type |-> "rect",
                   rect |-> bounding_box(CubicBezier(data[n].x0, data[n].y0, data[n].x1, data[n].y1,
                                                     data[n].cx0, data[n].cy0, data[n].cx1, data[n].cy1))]

\* C2, the half the code keeps: one entry per item, and an empty one for
\* every item with a NaN or infinite coordinate.
C2_NothingDropped ==
  index # <<>> =>
    /\ Len(index) = Len(data)
    /\ \A n \in 1..Len(data) : ~AllFinite(data[n]) => index[n] = [type |-> "empty"]

\* C2: _index_data ran on an item whose coordinates are all finite and add
\* up to Infinity.
C2_Witness ==
  /\ index # <<>>
  /\ \E n \in 1..Len(data) : AllFinite(data[n]) /\ ~isFinite(IndexSum(data[n]))

\* C3: update_bbox() returns true exactly when the box it computed differs
\* from the box the call before computed (the empty box for the first call);
\* after every call the stored box and is_displayed are the computed ones; a
\* call that follows another with no change of the DOM in between returns
\* false.
C3_UpdateBBox ==
  /\ _bbox = ub.computed
  /\ _is_displayed = ub.displayed
  /\ ub.n > 0 => (ub.ret <=> ~equals(ub.computed, ub.prev))
  /\ ub.quiet => ~ub.ret

\* C3: a second update_bbox() with an unchanged DOM returned false, on an
\* element that has a box.
C3_Witness ==
  /\ ub.n = 2
  /\ ub.quiet
  /\ ~ub.ret
  /\ _is_displayed
  /\ _bbox # EmptyBBox

C5_AfterResizeCalls ==
  handler \in {"resize notification", "after_resize"} =>
    /\ calls = IF ub.ret THEN <<"update_bbox", "_after_resize", "finish">>
                         ELSE <<"update_bbox", "finish">>
    /\ ub.ret <=> ~equals(ub.computed, ub.prev)

\* C5: a resize notification that did not change the box: no hook, and
\* finish() all the same.
C5_Witness ==
  /\ handler = "resize notification"
  /\ ~ub.ret
  /\ calls = <<"update_bbox", "finish">>

\* C6: once remove() ran, no step is a notification of the resize observer
\* (only a notification moves last_reported), whatever the DOM does.
C6_NoNotificationAfterRemove ==
  [][removed => /\ last_reported' = last_reported
                /\ handler' # "resize notification"]_vars

\* C6: a removed view whose element has a size the observer never reported.
C6_Witness ==
  /\ removed
  /\ ~observing
  /\ has_rendered
  /\ <<env.width, env.height>> # last_reported

\* The entries of a styles dictionary that are strings.
StringEntries(styles) ==
  [k \in {j \in DOMAIN styles : styles[j] # "null"} |-> styles[k]]

\* C7: once the view is rendered and while its signals are connected,
\* _display is empty exactly when model.visible is true, and holds the
\* display: none rule otherwise.
C7_DisplayMirrorsVisible ==
  (has_rendered /\ SignalsConnected) =>
    /\ model_visible <=> _display = ""
    /\ ~model_visible => _display = DisplayNone

\* C7: on a rendered view, visible went from false to true and the
\* stylesheet is empty again.
C7_Witness ==
  /\ has_rendered
  /\ SignalsConnected
  /\ handler = "_update_visible"
  /\ model_visible
  /\ _display = ""

\* C8: after _update_styles(), and on a rendered view while its signals are
\* connected, the inline style holds exactly the string entries of the
\* current model.styles.
C8_InlineStyleIsCurrent ==
  (handler = "_update_styles" \/ (has_rendered /\ SignalsConnected)) =>
    el_style = StringEntries(model_styles)

\* C8: _update_styles() ran on an inline style with a property that the new
\* styles do not name, and the property is gone.
C8_Witness ==
  /\ handler = "_update_styles"
  /\ \E k \in DOMAIN style_before : k \notin DOMAIN model_styles /\ k \notin DOMAIN el_style
====
